---- MODULE Spec2Model ----
(***************************************************************************)
(* A model of easyfig (src/__init__.py): the Easyfig class, which keeps    *)
(* typed settings in one or more INI files.  The state is the files on     *)
(* disk, the instance's two ConfigParser objects (_parser, read from all   *)
(* files; _save_parser, read from the last file only), and the attributes  *)
(* bound on the instance.  Every Python str is a sequence of one-character *)
(* strings, so that str(), int(), bool(), json.dumps and json.loads are    *)
(* computed on text and not assumed to be inverse to each other.           *)
(***************************************************************************)
EXTENDS Integers, Sequences, FiniteSets

(***************************************************************************)
(* Bounds of the model.                                                    *)
(***************************************************************************)
\* the longest run of operations on the files after Init
MaxOps == 4
\* the longest file list given to the constructor
MaxFiles == 2

(***************************************************************************)
(* Python values.  A value is a record [t, v]: t is the name of its type.  *)
(* A float is held in tenths (15 is 1.5); a list or tuple is a sequence of *)
(* values; a dict is a sequence of <<key text, value>> in insertion order. *)
(***************************************************************************)
PInt(n) == [t |-> "int", v |-> n]
PFloat(tenths) == [t |-> "float", v |-> tenths]
PBool(b) == [t |-> "bool", v |-> b]
PStr(s) == [t |-> "str", v |-> s]
PList(xs) == [t |-> "list", v |-> xs]
PTuple(xs) == [t |-> "tuple", v |-> xs]
PDict(kvs) == [t |-> "dict", v |-> kvs]
PNone == [t |-> "NoneType", v |-> 0]
\* the attribute does not exist on the instance (getattr would raise)
Unbound == [t |-> "unbound", v |-> 0]

TypeOf(x) == x.t

\* the element of a one-element set: The({F(x) : x \in {e}}) is F(e) with e
\* evaluated once
The(S) == CHOOSE x \in S : TRUE

(***************************************************************************)
(* Text.                                                                   *)
(***************************************************************************)
Digits == <<"0", "1", "2", "3", "4", "5", "6", "7", "8", "9">>

IsDigit(c) == \E i \in 1..10 : Digits[i] = c

DigitVal(c) == (CHOOSE i \in 1..10 : Digits[i] = c) - 1

IsSpace(c) == c = " "

RECURSIVE StrNat(_)
StrNat(n) == IF n < 10 THEN <<Digits[n + 1]>>
             ELSE StrNat(n \div 10) \o <<Digits[(n % 10) + 1]>>

\* str(n) of an int
StrInt(n) == IF n < 0 THEN <<"-">> \o StrNat(0 - n) ELSE StrNat(n)

\* str(b) of a bool
StrBool(b) == IF b THEN <<"T", "r", "u", "e">> ELSE <<"F", "a", "l", "s", "e">>

\* repr of a float with one fractional digit
StrFloat(tenths) ==
    LET a == IF tenths < 0 THEN 0 - tenths ELSE tenths
    IN  (IF tenths < 0 THEN <<"-">> ELSE <<>>)
        \o StrNat(a \div 10) \o <<".">> \o <<Digits[(a % 10) + 1]>>

RECURSIVE LStrip(_)
LStrip(s) == IF s # <<>> /\ IsSpace(Head(s)) THEN LStrip(Tail(s)) ELSE s

RECURSIVE RStrip(_)
RStrip(s) == IF s # <<>> /\ IsSpace(s[Len(s)])
             THEN RStrip(SubSeq(s, 1, Len(s) - 1)) ELSE s

Strip(s) == RStrip(LStrip(s))

AllDigits(s) == s # <<>> /\ \A i \in 1..Len(s) : IsDigit(s[i])

RECURSIVE NatOf(_)
NatOf(s) == IF s = <<>> THEN 0
            ELSE NatOf(SubSeq(s, 1, Len(s) - 1)) * 10 + DigitVal(s[Len(s)])

Fail == [ok |-> FALSE]
Ok(x) == [ok |-> TRUE, v |-> x]

\* int(s): surrounding blanks, an optional sign, decimal digits
IntOf(s) ==
    LET u == Strip(s)
        signed == u # <<>> /\ Head(u) \in {"-", "+"}
        body == IF signed THEN Tail(u) ELSE u
    IN  IF AllDigits(body)
        THEN Ok(PInt(IF signed /\ Head(u) = "-" THEN 0 - NatOf(body) ELSE NatOf(body)))
        ELSE Fail

DotAt(s) == IF \E i \in 1..Len(s) : s[i] = "."
            THEN CHOOSE i \in 1..Len(s) : s[i] = "." /\ \A j \in 1..(i - 1) : s[j] # "."
            ELSE 0

\* float(s): surrounding blanks, an optional sign, digits, and at most one
\* fractional digit (the floats of this model are tenths)
FloatOf(s) ==
    LET u == Strip(s)
        signed == u # <<>> /\ Head(u) \in {"-", "+"}
        body == IF signed THEN Tail(u) ELSE u
        d == DotAt(body)
        whole == IF d = 0 THEN body ELSE SubSeq(body, 1, d - 1)
        frac == IF d = 0 THEN <<>> ELSE SubSeq(body, d + 1, Len(body))
        mag == NatOf(whole) * 10 + (IF frac = <<>> THEN 0 ELSE DigitVal(frac[1]))
    IN  IF AllDigits(whole) /\ Len(frac) <= 1 /\ (frac = <<>> \/ AllDigits(frac))
        THEN Ok(PFloat(IF signed /\ Head(u) = "-" THEN 0 - mag ELSE mag))
        ELSE Fail

\* bool(s) of a str: true exactly when the string is not empty
BoolOf(s) == Ok(PBool(s # <<>>))

\* str(x) for the scalar values; a str is returned as it is
PyStr(x) ==
    CASE x.t = "int" -> StrInt(x.v)
      [] x.t = "float" -> StrFloat(x.v)
      [] x.t = "bool" -> StrBool(x.v)
      [] x.t = "str" -> x.v
      [] x.t = "NoneType" -> <<"N", "o", "n", "e">>

\* type(default)(s) for a scalar default and a str s
Cast(default, s) ==
    CASE default.t = "int" -> IntOf(s)
      [] default.t = "float" -> FloatOf(s)
      [] default.t = "bool" -> BoolOf(s)
      [] default.t = "str" -> Ok(PStr(s))
      [] OTHER -> Fail

\* s.replace(a, b) for one-character a and b
Replace(s, a, b) == [i \in 1..Len(s) |-> IF s[i] = a THEN b ELSE s[i]]

\* list(s) of a str: its characters
Chars(s) == [i \in 1..Len(s) |-> PStr(<<s[i]>>)]

(***************************************************************************)
(* json.dumps and json.loads, on ints, strs, true/false/null, arrays and   *)
(* objects.  The strs of this model hold letters, digits, blanks, quotes   *)
(* and backslashes; dumps escapes the double quote and the backslash.      *)
(***************************************************************************)
DQ == "\""
SQ == "'"
BS == "\\"

RECURSIVE JsonEscape(_)
JsonEscape(s) ==
    IF s = <<>> THEN <<>>
    ELSE (IF Head(s) \in {DQ, BS} THEN <<BS, Head(s)>> ELSE <<Head(s)>>)
         \o JsonEscape(Tail(s))

JsonString(s) == <<DQ>> \o JsonEscape(s) \o <<DQ>>

RECURSIVE JsonDumps(_)
RECURSIVE JsonJoin(_, _)
\* the elements of a list, or the key: value pairs of a dict, joined by ", "
JsonJoin(xs, isDict) ==
    IF xs = <<>> THEN <<>>
    ELSE (IF isDict
          THEN JsonString(Head(xs)[1]) \o <<":", " ">> \o JsonDumps(Head(xs)[2])
          ELSE JsonDumps(Head(xs)))
         \o (IF Len(xs) > 1 THEN <<",", " ">> ELSE <<>>)
         \o JsonJoin(Tail(xs), isDict)

JsonDumps(x) ==
    CASE x.t = "int" -> StrInt(x.v)
      [] x.t = "float" -> StrFloat(x.v)
      [] x.t = "bool" -> IF x.v THEN <<"t", "r", "u", "e">> ELSE <<"f", "a", "l", "s", "e">>
      [] x.t = "NoneType" -> <<"n", "u", "l", "l">>
      [] x.t = "str" -> JsonString(x.v)
      [] x.t \in {"list", "tuple"} -> <<"[">> \o JsonJoin(x.v, FALSE) \o <<"]">>
      [] x.t = "dict" -> <<"{">> \o JsonJoin(x.v, TRUE) \o <<"}">>

\* a parse result: the value read and the text after it
Parsed(x, rest) == [ok |-> TRUE, v |-> x, rest |-> rest]

HasPrefix(s, p) == Len(s) >= Len(p) /\ SubSeq(s, 1, Len(p)) = p

Drop(s, n) == SubSeq(s, n + 1, Len(s))

\* the length of the longest prefix of s made of digits
RECURSIVE DigitRun(_)
DigitRun(s) == IF s # <<>> /\ IsDigit(Head(s)) THEN 1 + DigitRun(Tail(s)) ELSE 0

\* a JSON number: an optional minus and digits, without a leading zero
JsonNumber(s) ==
    LET neg == s # <<>> /\ Head(s) = "-"
        body == IF neg THEN Tail(s) ELSE s
        n == DigitRun(body)
        digs == SubSeq(body, 1, n)
    IN  IF n = 0 \/ (n > 1 /\ digs[1] = "0") THEN Fail
        ELSE Parsed(PInt(IF neg THEN 0 - NatOf(digs) ELSE NatOf(digs)), Drop(body, n))

\* the text of a JSON string, s being what follows the opening quote
RECURSIVE JsonChars(_, _)
JsonChars(s, acc) ==
    IF s = <<>> THEN Fail
    ELSE IF Head(s) = DQ THEN Parsed(PStr(acc), Tail(s))
    ELSE IF Head(s) = BS
         THEN IF Len(s) >= 2 /\ s[2] \in {DQ, BS, "/"}
              THEN JsonChars(Drop(s, 2), Append(acc, s[2]))
              ELSE Fail
    ELSE JsonChars(Tail(s), Append(acc, Head(s)))

RECURSIVE JsonValue(_)
RECURSIVE JsonArray(_, _)
RECURSIVE JsonObject(_, _)

\* the elements of an array, s being what follows "[" or a ","
JsonArray(s, acc) ==
    LET e == JsonValue(s)
        r == IF e.ok THEN LStrip(e.rest) ELSE <<>>
    IN  IF ~e.ok \/ r = <<>> THEN Fail
        ELSE IF Head(r) = "]" THEN Parsed(PList(Append(acc, e.v)), Tail(r))
        ELSE IF Head(r) = "," THEN JsonArray(Tail(r), Append(acc, e.v))
        ELSE Fail

\* a later pair of the same key replaces the earlier one, as in a dict
PutKey(kvs, k, x) ==
    IF \E i \in 1..Len(kvs) : kvs[i][1] = k
    THEN [i \in 1..Len(kvs) |-> IF kvs[i][1] = k THEN <<k, x>> ELSE kvs[i]]
    ELSE Append(kvs, <<k, x>>)

\* the pairs of an object, s being what follows "{" or a ","
JsonObject(s, acc) ==
    LET u == LStrip(s)
        k == IF u # <<>> /\ Head(u) = DQ THEN JsonChars(Tail(u), <<>>) ELSE Fail
        c == IF k.ok THEN LStrip(k.rest) ELSE <<>>
        e == IF c # <<>> /\ Head(c) = ":" THEN JsonValue(Tail(c)) ELSE Fail
        r == IF e.ok THEN LStrip(e.rest) ELSE <<>>
    IN  IF ~e.ok \/ r = <<>> THEN Fail
        ELSE IF Head(r) = "}" THEN Parsed(PDict(PutKey(acc, k.v.v, e.v)), Tail(r))
        ELSE IF Head(r) = "," THEN JsonObject(Tail(r), PutKey(acc, k.v.v, e.v))
        ELSE Fail

JsonValue(s) ==
    LET u == LStrip(s)
    IN  IF u = <<>> THEN Fail
        ELSE IF Head(u) = "["
             THEN IF LStrip(Tail(u)) # <<>> /\ Head(LStrip(Tail(u))) = "]"
                  THEN Parsed(PList(<<>>), Tail(LStrip(Tail(u))))
                  ELSE JsonArray(Tail(u), <<>>)
        ELSE IF Head(u) = "{"
             THEN IF LStrip(Tail(u)) # <<>> /\ Head(LStrip(Tail(u))) = "}"
                  THEN Parsed(PDict(<<>>), Tail(LStrip(Tail(u))))
                  ELSE JsonObject(Tail(u), <<>>)
        ELSE IF Head(u) = DQ THEN JsonChars(Tail(u), <<>>)
        ELSE IF HasPrefix(u, <<"t", "r", "u", "e">>) THEN Parsed(PBool(TRUE), Drop(u, 4))
        ELSE IF HasPrefix(u, <<"f", "a", "l", "s", "e">>) THEN Parsed(PBool(FALSE), Drop(u, 5))
        ELSE IF HasPrefix(u, <<"n", "u", "l", "l">>) THEN Parsed(PNone, Drop(u, 4))
        ELSE JsonNumber(u)

\* json.loads(s): one value and nothing but blanks after it; Fail stands for
\* json.decoder.JSONDecodeError
JsonLoads(s) ==
    LET e == JsonValue(s)
    IN  IF e.ok /\ LStrip(e.rest) = <<>> THEN Ok(e.v) ELSE Fail

(***************************************************************************)
(* ConfigParser.  A parser holds its sections and, for the options, a      *)
(* function from <<section, option>> to the value text.  A file on disk is *)
(* what a parser wrote (or what was there before), or does not exist.      *)
(* Option names of this model are lower case, as optionxform makes them,   *)
(* and no value holds a "%" (no interpolation).                            *)
(***************************************************************************)
EmptyParser == [secs |-> {}, opts |-> [k \in {} |-> <<>>]]

NoFile == [exists |-> FALSE, secs |-> {}, opts |-> [k \in {} |-> <<>>]]

\* ConfigParser.read(path): a missing file is skipped; sections are added, a
\* value read replaces the one already held, and values come stripped
ReadFile(p, f) ==
    IF ~f.exists THEN p
    ELSE [secs |-> p.secs \cup f.secs,
          opts |-> [k \in (DOMAIN p.opts) \cup (DOMAIN f.opts) |->
                       IF k \in DOMAIN f.opts THEN Strip(f.opts[k]) ELSE p.opts[k]]]

\* ConfigParser.write(configfile) on a file opened with 'w'
WriteFile(p) == [exists |-> TRUE, secs |-> p.secs, opts |-> p.opts]

HasSection(p, section) == section \in p.secs

HasOption(p, section, option) == <<section, option>> \in DOMAIN p.opts

AddSection(p, section) == [p EXCEPT !.secs = @ \cup {section}]

\* ConfigParser.set(section, option, value), the section being there
ParserSet(p, section, option, text) ==
    [p EXCEPT !.opts = [k \in (DOMAIN p.opts) \cup {<<section, option>>} |->
                           IF k = <<section, option>> THEN text ELSE p.opts[k]]]

RemoveOption(p, section, option) ==
    [p EXCEPT !.opts = [k \in (DOMAIN p.opts) \ {<<section, option>>} |-> p.opts[k]]]

\* the option names of a section: the keys of dict(parser.items(section))
OptionsOf(p, section) == {k[2] : k \in {q \in DOMAIN p.opts : q[1] = section}}

\* ConfigParser.items(section): a list of (name, value) tuples, here as a set
Items(p, section) ==
    {PTuple(<<PStr(o), PStr(p.opts[<<section, o>>])>>) : o \in OptionsOf(p, section)}

\* x in xs, by Python's ==: values of different types are never equal
PyIn(x, xs) == \E e \in xs : e.t = x.t /\ e.v = x.v

(***************************************************************************)
(* Names.                                                                  *)
(***************************************************************************)
GENERAL == <<"G", "E", "N", "E", "R", "A", "L">>
NET == <<"N", "E", "T">>
US == "_"

UpperCase == <<"A", "B", "C", "D", "E", "F", "G", "H", "I", "J", "K", "L", "M",
               "N", "O", "P", "Q", "R", "S", "T", "U", "V", "W", "X", "Y", "Z">>
LowerCase == <<"a", "b", "c", "d", "e", "f", "g", "h", "i", "j", "k", "l", "m",
               "n", "o", "p", "q", "r", "s", "t", "u", "v", "w", "x", "y", "z">>

\* str.lower()
Lower(s) == [i \in 1..Len(s) |->
                IF \E j \in 1..26 : UpperCase[j] = s[i]
                THEN LowerCase[CHOOSE j \in 1..26 : UpperCase[j] = s[i]]
                ELSE s[i]]

\* option.startswith("_")
StartsWithUS(option) == option # <<>> /\ Head(option) = US

\* option.replace("_", "", 1): the first underscore removed
RECURSIVE ReplaceFirstUS(_)
ReplaceFirstUS(option) ==
    IF option = <<>> THEN <<>>
    ELSE IF Head(option) = US THEN Tail(option)
    ELSE <<Head(option)>> \o ReplaceFirstUS(Tail(option))

\* the name of the attribute bound for an option of the schema
VarName(section, option) ==
    LET varname == IF StartsWithUS(option) THEN ReplaceFirstUS(option) ELSE option
    IN  IF section # GENERAL THEN Lower(section) \o <<US>> \o varname ELSE varname

(***************************************************************************)
(* The state: the class attribute Easyfig.defaults (the schema, as the     *)
(* sequence of its <<section, option, default>> in the order the dicts are *)
(* walked), the files of the file list as they are on disk, and the        *)
(* instance: its two parsers, its bound attributes, and whether there is   *)
(* one (a constructor that raised leaves none).  op, ret and raised record *)
(* the last call, what it returned and what it raised.                     *)
(***************************************************************************)
VARIABLES defaults, files, _parser, _save_parser, attrs, alive, op, ret, raised, nops

vars == <<defaults, files, _parser, _save_parser, attrs, alive, op, ret, raised, nops>>

NoError == "none"

\* the names of the attributes the schema binds
VarNames == {VarName(defaults[i][1], defaults[i][2]) : i \in 1..Len(defaults)}

(***************************************************************************)
(* The methods of Easyfig, as functions of o: the instance and the disk,   *)
(* [files, _parser, _save_parser, attrs, raised].                          *)
(***************************************************************************)

\* save with a slip: the first file of the list is written, not the last
save_to_first(o) == [o EXCEPT !.files[1] = WriteFile(o._save_parser)]

\* Easyfig.save: the write parser is written over the last file
save(o) == [o EXCEPT !.files[Len(o.files)] = WriteFile(o._save_parser)]

\* Easyfig._set: the value goes to the write parser as text; [o, ret]
_set(o, option, value, section) ==
    LET sp == IF ~HasSection(o._save_parser, section)
              THEN AddSection(o._save_parser, section)
              ELSE o._save_parser
        setval == IF value.t \in {"list", "dict", "tuple"}
                  THEN JsonDumps(value)
                  ELSE PyStr(value)
    IN  [o |-> [o EXCEPT !._save_parser = ParserSet(sp, section, option, setval)],
         ret |-> setval]

\* get with a slip: the default of a protected key is returned and not written
get_skipping_protected(o, key, default, section) ==
    IF HasOption(o._parser, section, key)
    THEN [o |-> o, ret |-> o._parser.opts[<<section, key>>]]
    ELSE IF StartsWithUS(key)
         THEN [o |-> o,
               ret |-> IF default.t \in {"list", "dict", "tuple"}
                       THEN JsonDumps(default) ELSE PyStr(default)]
    ELSE _set(o, key, default, section)

\* Easyfig.get: the text held by the read parser, or, on NoSectionError and
\* NoOptionError, the default, which _set writes to the write parser; [o, ret]
get(o, key, default, section) ==
    IF HasOption(o._parser, section, key)
    THEN [o |-> o, ret |-> o._parser.opts[<<section, key>>]]
    ELSE _set(o, key, default, section)

\* Easyfig._set_attribute: setattr of the value cast to the default's type
_set_attribute(o, varname, value, default) ==
    IF default.t \in {"list", "dict", "tuple"}
    THEN LET j == JsonLoads(Replace(value, SQ, DQ))
         IN  IF j.ok THEN [o EXCEPT !.attrs[varname] = j.v]
             ELSE IF default.t = "list"
                  THEN [o EXCEPT !.attrs[varname] = PList(Chars(value))]
             ELSE IF default.t = "tuple"
                  THEN [o EXCEPT !.attrs[varname] = PTuple(Chars(value))]
             \* dict(value) of a str: {} when it is empty, or ValueError
             ELSE IF value = <<>>
                  THEN [o EXCEPT !.attrs[varname] = PDict(<<>>)]
             ELSE [o EXCEPT !.raised = "ValueError"]
    ELSE LET c == Cast(default, value)
         IN  IF c.ok THEN [o EXCEPT !.attrs[varname] = c.v]
             ELSE o

\* the body of the loops of _load, for one option of the schema
LoadEntry(o, section, option, default) ==
    LET stripped == ReplaceFirstUS(option)
        p1 == IF StartsWithUS(option) /\ HasSection(o._parser, section)
                 /\ PyIn(PStr(stripped), Items(o._parser, section))
              THEN RemoveOption(o._parser, section, stripped)
              ELSE o._parser
        s1 == IF StartsWithUS(option) /\ HasSection(o._save_parser, section)
                 /\ PyIn(PStr(stripped), Items(o._save_parser, section))
              THEN RemoveOption(o._save_parser, section, stripped)
              ELSE o._save_parser
    IN  The({_set_attribute(g.o, VarName(section, option), g.ret, default) :
                g \in {get([o EXCEPT !._parser = p1, !._save_parser = s1],
                           option, default, section)}})

\* the options of the schema from the i-th on, until one raises
RECURSIVE LoadEntries(_, _)
LoadEntries(o, i) ==
    IF i > Len(defaults) \/ o.raised # NoError THEN o
    ELSE The({LoadEntries(o1, i + 1) :
                 o1 \in {LoadEntry(o, defaults[i][1], defaults[i][2], defaults[i][3])}})

\* the files read from the last to the first: the first file wins
RECURSIVE ReadAllReversed(_, _, _)
ReadAllReversed(p, fs, i) ==
    IF i > Len(fs) THEN p ELSE ReadFile(ReadAllReversed(p, fs, i + 1), fs[i])

\* the read parser: every file of the list read in order
RECURSIVE ReadAll(_, _, _)
ReadAll(p, fs, i) == IF i > Len(fs) THEN p ELSE ReadAll(ReadFile(p, fs[i]), fs, i + 1)

\* _load with a slip: the write parser starts empty, the last file unread
_load_not_reading_save_file(o) ==
    LET o1 == [o EXCEPT !._save_parser = EmptyParser,
                        !._parser = ReadAll(EmptyParser, o.files, 1)]
    IN  The({IF o2.raised # NoError THEN o2 ELSE save(o2) : o2 \in {LoadEntries(o1, 1)}})

\* Easyfig._load (load_additional_sections does nothing)
_load(o) ==
    LET o1 == [o EXCEPT !._save_parser = ReadFile(EmptyParser, o.files[Len(o.files)]),
                        !._parser = ReadAll(EmptyParser, o.files, 1)]
    IN  The({IF o2.raised # NoError THEN o2 ELSE save(o2) : o2 \in {LoadEntries(o1, 1)}})

\* set with a slip: the write parser is saved on the failure path too
set_saving_on_failure(o, option, value, section) ==
    The({IF o1.raised # NoError THEN [o |-> o1, ret |-> PNone]
         ELSE IF HasSection(o1._parser, section)
                 /\ option \in OptionsOf(o1._parser, section)
                 /\ ~StartsWithUS(option)
              THEN The({[o |-> _load(save(r.o)), ret |-> PStr(r.ret)] :
                           r \in {_set(o1, option, value, section)}})
         ELSE [o |-> save(o1), ret |-> PBool(FALSE)] :
            o1 \in {IF ~HasSection(o._parser, section) THEN _load(o) ELSE o}})

\* Easyfig.set; [o, ret]
set(o, option, value, section) ==
    The({IF o1.raised # NoError THEN [o |-> o1, ret |-> PNone]
         ELSE IF HasSection(o1._parser, section)
                 /\ option \in OptionsOf(o1._parser, section)
                 /\ ~StartsWithUS(option)
              THEN The({[o |-> _load(save(r.o)), ret |-> PStr(r.ret)] :
                           r \in {_set(o1, option, value, section)}})
         ELSE [o |-> o1, ret |-> PBool(FALSE)] :
            o1 \in {IF ~HasSection(o._parser, section) THEN _load(o) ELSE o}})

\* Easyfig.tostring: the "k : v" lines of the section, as <<k, v>>; items()
\* raises NoSectionError when the read parser has no such section
tostring(o, section) ==
    IF ~HasSection(o._parser, section)
    THEN [o |-> [o EXCEPT !.raised = "NoSectionError"], ret |-> PNone]
    ELSE [o |-> o,
          ret |-> [t |-> "lines",
                   v |-> {<<k, o._parser.opts[<<section, k>>]>> :
                             k \in {q \in OptionsOf(o._parser, section) : ~StartsWithUS(q)}}]]

\* Easyfig.__init__: both parsers None, no attribute bound, then _load
init(fs) ==
    _load([files |-> fs, _parser |-> EmptyParser, _save_parser |-> EmptyParser,
           attrs |-> [n \in VarNames |-> Unbound], raised |-> NoError])

(***************************************************************************)
(* The schemas, files and calls the model draws from.                      *)
(***************************************************************************)
count == <<"c", "o", "u", "n", "t">>
locked == <<"l", "o", "c", "k", "e", "d">>
_locked == <<US>> \o locked
flag == <<"f", "l", "a", "g">>
ratio == <<"r", "a", "t", "i", "o">>
name == <<"n", "a", "m", "e">>
items == <<"i", "t", "e", "m", "s">>
pair == <<"p", "a", "i", "r">>
opts == <<"o", "p", "t", "s">>
nope == <<"n", "o", "p", "e">>

junk == <<"j", "u", "n", "k">>
hi == <<"h", "i">>
yo == <<"y", "o">>

\* the schema of the spec's scenarios: an int and a protected int
SchemaA == << <<GENERAL, count, PInt(1)>>, <<GENERAL, _locked, PInt(0)>> >>
\* the other scalar types, and a section that is not GENERAL
SchemaB == << <<GENERAL, flag, PBool(TRUE)>>, <<NET, ratio, PFloat(15)>>,
              <<NET, name, PStr(hi)>> >>
\* the composite types
SchemaC == << <<GENERAL, items, PList(<<PInt(1), PStr(<<"x">>)>>)>>,
              <<GENERAL, pair, PTuple(<<PInt(1), PInt(2)>>)>>,
              <<GENERAL, opts, PDict(<< <<<<"a">>, PInt(1)>> >>)>> >>

\* a list default whose str holds an apostrophe
SchemaD == << <<GENERAL, items, PList(<<PStr(<<"i", "t", SQ, "s">>), PInt(2)>>)>> >>

Schemas == {SchemaA, SchemaB, SchemaC, SchemaD}

\* a file holding the given <<section, option, text>> entries
FileOf(es) ==
    [exists |-> TRUE,
     secs |-> {e[1] : e \in es},
     opts |-> [k \in {<<e[1], e[2]>> : e \in es} |->
                  (CHOOSE e \in es : <<e[1], e[2]>> = k)[3]]]

\* a file with a section header and no option under it
BareSection(section) ==
    [exists |-> TRUE, secs |-> {section}, opts |-> [k \in {} |-> <<>>]]

\* what the last file of the list may hold before the first construction
LastFiles(schema) ==
    IF schema = SchemaA
    THEN {NoFile,
          BareSection(GENERAL),
          FileOf({<<GENERAL, count, <<"5">>>>}),
          FileOf({<<GENERAL, count, <<"a", "b", "c">>>>}),
          FileOf({<<GENERAL, count, <<"5">>>>, <<GENERAL, locked, <<"3">>>>}),
          FileOf({<<GENERAL, _locked, <<"2">>>>})}
    ELSE IF schema = SchemaB
    THEN {NoFile,
          FileOf({<<GENERAL, flag, StrBool(FALSE)>>}),
          FileOf({<<GENERAL, flag, StrBool(TRUE)>>, <<NET, ratio, <<"2", ".", "5">>>>,
                  <<NET, name, yo>>}),
          FileOf({<<NET, ratio, <<"x">>>>})}
    ELSE IF schema = SchemaD
    THEN {NoFile,
          FileOf({<<GENERAL, items, <<"[", "3", "]">>>>})}
    ELSE {NoFile,
          FileOf({<<GENERAL, items, <<"[", "'", "a", "'", ",", " ", "2", "]">>>>}),
          FileOf({<<GENERAL, items, junk>>, <<GENERAL, pair, junk>>}),
          FileOf({<<GENERAL, opts, junk>>}),
          FileOf({<<GENERAL, opts, <<"{", DQ, "b", DQ, ":", " ", "2", "}">>>>})}

\* what a file before the last one may hold
EarlierFiles(schema) ==
    IF schema = SchemaA
    THEN {NoFile,
          FileOf({<<GENERAL, count, <<"8">>>>, <<GENERAL, _locked, <<"4">>>>})}
    ELSE IF schema = SchemaB
    THEN {NoFile,
          FileOf({<<GENERAL, flag, <<>>>>, <<NET, name, <<"z">>>>})}
    ELSE {NoFile,
          FileOf({<<GENERAL, items, <<"[", "3", "]">>>>})}

\* the file lists: one to MaxFiles files
FileLists(schema) ==
    UNION {{fs \in [1..n -> LastFiles(schema) \cup EarlierFiles(schema)] :
               /\ fs[n] \in LastFiles(schema)
               /\ \A i \in 1..(n - 1) : fs[i] \in EarlierFiles(schema)} :
           n \in 1..MaxFiles}

Call(option, value, section) == [option |-> option, value |-> value, section |-> section]

\* the calls set(option, value, section) of the model
SetCalls ==
    IF defaults = SchemaA
    THEN {Call(count, PInt(7), GENERAL), Call(count, PStr(junk), GENERAL),
          Call(_locked, PInt(9), GENERAL), Call(locked, PInt(99), GENERAL),
          Call(nope, PInt(1), GENERAL), Call(count, PInt(7), NET)}
    ELSE IF defaults = SchemaB
    THEN {Call(flag, PBool(FALSE), GENERAL), Call(flag, PBool(TRUE), GENERAL),
          Call(ratio, PFloat(25), NET), Call(name, PStr(yo), NET),
          Call(name, PStr(yo), GENERAL)}
    ELSE {Call(items, PList(<<PInt(2), PStr(<<"y">>)>>), GENERAL),
          Call(items, PList(<<PStr(<<"i", "t", SQ, "s">>)>>), GENERAL),
          Call(pair, PTuple(<<PInt(3), PInt(4)>>), GENERAL),
          Call(opts, PDict(<< <<<<"b">>, PInt(2)>> >>), GENERAL),
          Call(opts, PStr(junk), GENERAL), Call(_locked, PInt(9), NET)}

\* the calls get(key, default, section) of the model
GetCalls ==
    IF defaults = SchemaA
    THEN {Call(count, PNone, GENERAL), Call(_locked, PInt(5), GENERAL),
          Call(nope, PInt(5), NET)}
    ELSE IF defaults = SchemaB
    THEN {Call(flag, PNone, GENERAL), Call(ratio, PFloat(5), NET)}
    ELSE {Call(items, PList(<<>>), GENERAL), Call(opts, PNone, GENERAL)}

Sections == {GENERAL, NET}

NoCall == Call(<<>>, PNone, <<>>)

(***************************************************************************)
(* The specification.  Init is the disk before any instance exists; every  *)
(* action is one call of a public method, of _load on the instance, or of  *)
(* the constructor, which makes a new instance over the same file list.    *)
(***************************************************************************)
Init ==
    /\ defaults \in Schemas
    /\ files \in FileLists(defaults)
    /\ _parser = EmptyParser
    /\ _save_parser = EmptyParser
    /\ attrs = [n \in VarNames |-> Unbound]
    /\ alive = FALSE
    /\ op = [name |-> "none", call |-> NoCall]
    /\ ret = PNone
    /\ raised = NoError
    /\ nops = 0

\* the instance and the disk as the methods take them
Self == [files |-> files, _parser |-> _parser, _save_parser |-> _save_parser,
         attrs |-> attrs, raised |-> NoError]

\* the state after a call that left o and returned r
Becomes(o, r, opname, call) ==
    /\ files' = o.files
    /\ _parser' = o._parser
    /\ _save_parser' = o._save_parser
    /\ attrs' = o.attrs
    /\ raised' = o.raised
    /\ ret' = IF o.raised # NoError THEN PNone ELSE r
    /\ op' = [name |-> opname, call |-> call]
    /\ nops' = nops + 1
    /\ UNCHANGED defaults

\* Easyfig(filename): a new instance; none when __init__ raises
Construct ==
    /\ nops < MaxOps
    /\ \E o \in {init(files)} :
          /\ Becomes(o, PNone, "init", NoCall)
          /\ alive' = (o.raised = NoError)

\* self._load() on the instance there is: its attributes stay until rebound
Load ==
    /\ nops < MaxOps
    /\ alive
    /\ \E o \in {_load(Self)} : Becomes(o, PNone, "_load", NoCall)
    /\ UNCHANGED alive

Get ==
    /\ nops < MaxOps
    /\ alive
    /\ \E c \in GetCalls :
          \E g \in {get(Self, c.option, c.value, c.section)} :
             Becomes(g.o, PStr(g.ret), "get", c)
    /\ UNCHANGED alive

Set ==
    /\ nops < MaxOps
    /\ alive
    /\ \E c \in SetCalls :
          \E r \in {set(Self, c.option, c.value, c.section)} :
             Becomes(r.o, r.ret, "set", c)
    /\ UNCHANGED alive

Save ==
    /\ nops < MaxOps
    /\ alive
    /\ \E o \in {save(Self)} : Becomes(o, PNone, "save", NoCall)
    /\ UNCHANGED alive

ToString ==
    /\ nops < MaxOps
    /\ alive
    /\ \E section \in Sections :
          \E r \in {tostring(Self, section)} :
             Becomes(r.o, r.ret, "tostring", Call(<<>>, PNone, section))
    /\ UNCHANGED alive

Next == Construct \/ Load \/ Get \/ Set \/ Save \/ ToString

Spec == Init /\ [][Next]_vars

(***************************************************************************)
(* What the properties speak of.                                           *)
(***************************************************************************)
LastFile == files[Len(files)]

\* the entries a parser reads from a file
Entries(f) == ReadFile(EmptyParser, f)

\* the schema's options that carry the protection marker
ProtectedKeys == {<<defaults[i][1], defaults[i][2]>> :
                     i \in {j \in 1..Len(defaults) : StartsWithUS(defaults[j][2])}}

\* the text a file holds for <<section, option>>, or that it holds none
Held(f, k) == IF k \in DOMAIN Entries(f).opts THEN <<"some", Entries(f).opts[k]>>
              ELSE <<"none">>

\* Python's == on the values of the model
PyEq(a, b) == a.t = b.t /\ a.v = b.v

\* the text a value is stored as
Serialized(x) == IF x.t \in {"list", "dict", "tuple"} THEN JsonDumps(x) ELSE PyStr(x)

\* the last call was set and passed its guard (it returned the text stored)
SetPassed == op.name = "set" /\ raised = NoError /\ ret.t = "str"

\* the last call was set and failed its guard (it returned False)
SetFailed == op.name = "set" /\ raised = NoError /\ ret = PBool(FALSE)

\* the places of the schema that declare <<section, option>>
Declared(section, option) ==
    {i \in 1..Len(defaults) : defaults[i][1] = section /\ defaults[i][2] = option}

(***************************************************************************)
(* C1: after construction every option of the schema has a bound           *)
(* attribute whose type is the type of its default, or whose value is the  *)
(* default.  The code refutes it: a value that cannot be cast leaves the   *)
(* attribute of a new instance unbound, and a tuple default is bound as a  *)
(* list.  (A value equal to the default has the default's type.)           *)
(***************************************************************************)
C1_EveryOptionBound ==
    (op.name = "init" /\ alive) =>
        \A i \in 1..Len(defaults) :
            LET a == attrs[VarName(defaults[i][1], defaults[i][2])]
            IN  a.t = defaults[i][3].t

(***************************************************************************)
(* C2: no call of get, set, save or tostring changes what the save file    *)
(* holds for a protected option of the schema.  The code refutes it: get   *)
(* with another default, on an instance whose read parser lacks the        *)
(* option, puts that default in the write parser, and save writes it.      *)
(***************************************************************************)
C2_ProtectedNeverRewritten ==
    [][(alive /\ op'.name \in {"get", "set", "save", "tostring"}) =>
          \A k \in ProtectedKeys : Held(files'[Len(files)], k) = Held(LastFile, k)]_vars

(***************************************************************************)
(* C3: set on an option name that begins with the marker returns False and *)
(* leaves the save file as it was.  The code refutes the first half: when  *)
(* the read parser lacks the section, set loads first, and that load       *)
(* raises ValueError on a malformed dict value (see C7).                   *)
(***************************************************************************)
C3_SetProtectedReturnsFalse ==
    [][(op'.name = "set" /\ StartsWithUS(op'.call.option)) =>
          /\ raised' = NoError
          /\ ret' = PBool(FALSE)
          /\ Entries(files'[Len(files)]) = Entries(LastFile)]_vars

(***************************************************************************)
(* C4: with _locked in the schema, set("locked", 99) returns False and     *)
(* leaves the save file as it was.  The code refutes it when a file holds  *)
(* a stray entry locked: _load never removes it, and set passes its guard. *)
(***************************************************************************)
C4_SetStrippedNameFails ==
    [][(op'.name = "set" /\ op'.call = Call(locked, PInt(99), GENERAL)
           /\ <<GENERAL, _locked>> \in ProtectedKeys) =>
          /\ ret' = PBool(FALSE)
          /\ Entries(files'[Len(files)]) = Entries(LastFile)]_vars

(***************************************************************************)
(* C5: after set(option, v) passed its guard, for an unprotected option of *)
(* the schema with a scalar default and v of that type, a new instance     *)
(* over the same file list binds v.  The code refutes it for a bool: False *)
(* is stored as "False", and bool("False") is True.                        *)
(***************************************************************************)
C5_RoundTrip ==
    [][(SetPassed /\ op'.name = "init") =>
          \A i \in Declared(op.call.section, op.call.option) :
              (defaults[i][3].t \in {"int", "float", "bool", "str"}
                  /\ op.call.value.t = defaults[i][3].t)
              => PyEq(attrs'[VarName(op.call.section, op.call.option)], op.call.value)]_vars

(***************************************************************************)
(* C6, as stated: the save file never holds an entry for a protected       *)
(* option of the schema.                                                   *)
(***************************************************************************)
C6_NoProtectedInFile ==
    alive => \A k \in ProtectedKeys : ~HasOption(Entries(LastFile), k[1], k[2])

\* the files of the list that define <<section, option>>
Defining(fs, section, option) ==
    {j \in 1..Len(fs) : HasOption(Entries(fs[j]), section, option)}

(***************************************************************************)
(* C6, amended: the save file keeps the protected options, under their     *)
(* names with the marker.  While there is an instance, every option of     *)
(* the schema, protected or not, is defined in some file of the list; a    *)
(* construction writes each option that no file defined to the last file,  *)
(* as the text of its default; and with the schema {count: 1, _locked: 0}  *)
(* and no file, construction binds count = 1 and locked = 0 and leaves the *)
(* file with exactly count = 1 and _locked = 0 in [GENERAL].               *)
(***************************************************************************)
C6_ProtectedKeptInFile ==
    [][/\ alive' =>
            \A i \in 1..Len(defaults) :
                Defining(files', defaults[i][1], defaults[i][2]) # {}
       /\ (op'.name = "init" /\ alive') =>
            \A i \in 1..Len(defaults) :
                Defining(files, defaults[i][1], defaults[i][2]) = {}
                => Held(files'[Len(files)], <<defaults[i][1], defaults[i][2]>>)
                      = <<"some", Serialized(defaults[i][3])>>
       /\ (op'.name = "init" /\ defaults = SchemaA /\ files = <<NoFile>>) =>
            /\ attrs'[count] = PInt(1)
            /\ attrs'[locked] = PInt(0)
            /\ files' = <<FileOf({<<GENERAL, count, <<"1">>>>,
                                  <<GENERAL, _locked, <<"0">>>>})>>]_vars

\* the first construction over no file, with the scenario's schema
C6_Witness ==
    /\ defaults = SchemaA /\ op.name = "init" /\ nops = 1 /\ alive
    /\ files = <<FileOf({<<GENERAL, count, <<"1">>>>, <<GENERAL, _locked, <<"0">>>>})>>
    /\ attrs[count] = PInt(1) /\ attrs[locked] = PInt(0)

(***************************************************************************)
(* C7: no call raises.  The code refutes it: dict(value) raises ValueError *)
(* in _set_attribute when a dict option holds text that is not JSON, and   *)
(* tostring raises NoSectionError when the read parser lacks the section.  *)
(***************************************************************************)
C7_NothingRaises == raised = NoError

(***************************************************************************)
(* C8, as stated: a set that fails its guard changes neither parser, no    *)
(* attribute and no file.                                                  *)
(***************************************************************************)
C8_FailedSetChangesNothing ==
    [][SetFailed' =>
          /\ _parser' = _parser
          /\ _save_parser' = _save_parser
          /\ attrs' = attrs
          /\ files' = files]_vars

(***************************************************************************)
(* C8, amended: a set that fails its guard returns False and leaves every  *)
(* file as it was; it leaves both parsers and the attributes as they were  *)
(* when the read parser already had the section (otherwise set has run a   *)
(* Load first, which reads both parsers again and rebinds the attributes). *)
(***************************************************************************)
C8_FailedSetFrame ==
    [][SetFailed' =>
          /\ files' = files
          /\ HasSection(_parser, op'.call.section) =>
                /\ _parser' = _parser
                /\ _save_parser' = _save_parser
                /\ attrs' = attrs]_vars

\* a set that failed its guard although the read parser had the section
C8_Witness ==
    /\ SetFailed
    /\ HasSection(_parser, op.call.section)
    /\ \/ StartsWithUS(op.call.option)
       \/ op.call.option \notin OptionsOf(_parser, op.call.section)

(***************************************************************************)
(* C9: a set that passes its guard returns the text v is stored as; the    *)
(* last file and both parsers then hold that text, and the attribute is v  *)
(* (v being of the default's type).  The code refutes the last part: the   *)
(* attribute is cast from the text, so False binds True (see C5) and a     *)
(* tuple binds a list.                                                     *)
(***************************************************************************)
C9_SetStoresAndBinds ==
    [][SetPassed' =>
          LET k == <<op'.call.section, op'.call.option>>
              text == Serialized(op'.call.value)
          IN  /\ ret' = PStr(text)
              /\ Held(files'[Len(files)], k) = <<"some", text>>
              /\ HasOption(_parser', k[1], k[2]) /\ _parser'.opts[k] = text
              /\ HasOption(_save_parser', k[1], k[2]) /\ _save_parser'.opts[k] = text
              /\ \A i \in Declared(k[1], k[2]) :
                    op'.call.value.t = defaults[i][3].t
                    => PyEq(attrs'[VarName(k[1], k[2])], op'.call.value)]_vars

\* the greatest of a set of numbers
Max(S) == CHOOSE x \in S : \A y \in S : y <= x

\* what text binds under a default: [ok, v]; no value when the cast fails
Bound(default, text) ==
    IF default.t \in {"list", "dict", "tuple"}
    THEN JsonLoads(Replace(text, SQ, DQ))
    ELSE Cast(default, text)

(***************************************************************************)
(* C10: a construction binds, for every option of the schema that some     *)
(* file defines, the value of the latest file of the list that defines it, *)
(* cast to the default's type (when the text can be cast).                 *)
(***************************************************************************)
C10_LatestFileWins ==
    [][(op'.name = "init" /\ alive') =>
          \A i \in 1..Len(defaults) :
              LET section == defaults[i][1]
                  option == defaults[i][2]
                  def == Defining(files, section, option)
              IN  def # {} =>
                      LET b == Bound(defaults[i][3],
                                     Strip(files[Max(def)].opts[<<section, option>>]))
                      IN  b.ok => PyEq(attrs'[VarName(section, option)], b.v)]_vars

\* a new instance over two files that both define an option, differently,
\* whose attribute is the second file's value
C10_Witness ==
    /\ op.name = "init" /\ alive /\ Len(files) = 2
    /\ \E i \in 1..Len(defaults) :
          LET k == <<defaults[i][1], defaults[i][2]>>
          IN  /\ k \in DOMAIN files[1].opts /\ k \in DOMAIN files[2].opts
              /\ files[1].opts[k] # files[2].opts[k]
              /\ Bound(defaults[i][3], files[2].opts[k]).ok
              /\ Bound(defaults[i][3], files[1].opts[k]).ok
              /\ Bound(defaults[i][3], files[1].opts[k]) # Bound(defaults[i][3], files[2].opts[k])
              /\ PyEq(attrs[VarName(k[1], k[2])], Bound(defaults[i][3], files[2].opts[k]).v)

\* the last call was a Load of its own: the constructor's, or _load
Loaded == op.name \in {"init", "_load"} /\ alive /\ raised = NoError

(***************************************************************************)
(* C11: no step (construction, _load, get, set, save, tostring) changes a  *)
(* file of the list other than the last one.                               *)
(***************************************************************************)
C11_OnlyLastFileWritten ==
    [][\A i \in 1..(Len(files) - 1) : files'[i] = files[i]]_vars

\* a set that passed its guard over two files: the new text is in the
\* second file, and the first still holds another text for the option
C11_Witness ==
    /\ SetPassed /\ Len(files) = 2
    /\ LET k == <<op.call.section, op.call.option>>
       IN  /\ Held(files[2], k) = <<"some", Serialized(op.call.value)>>
           /\ k \in DOMAIN files[1].opts
           /\ files[1].opts[k] # Serialized(op.call.value)

C13_ListRoundTrip ==
    [][(op'.name \in {"init", "_load"} /\ raised' = NoError) =>
          \A i \in 1..Len(defaults) :
              LET k == <<defaults[i][1], defaults[i][2]>>
              IN  (/\ defaults[i][3].t = "list"
                   /\ Defining(files, k[1], k[2]) = {Len(files)}
                   /\ Held(LastFile, k) = <<"some", JsonDumps(defaults[i][3])>>)
                  => PyEq(attrs'[VarName(k[1], k[2])], defaults[i][3])]_vars

(***************************************************************************)
(* C14: after a Load, neither parser holds an entry under the stripped     *)
(* name of a protected option of the schema.  The code refutes it: the     *)
(* test `varname in parser.items(section)` looks for a str among tuples,   *)
(* is never true, and remove_option is never called.                       *)
(***************************************************************************)
C14_StrayEntryRemoved ==
    Loaded =>
        \A k \in ProtectedKeys :
            /\ ~HasOption(_parser, k[1], ReplaceFirstUS(k[2]))
            /\ ~HasOption(_save_parser, k[1], ReplaceFirstUS(k[2]))

(***************************************************************************)
(* C15: right after construction, set on an unprotected option of the      *)
(* schema, in its section, does not return False.  The code refutes it for *)
(* a file that had the section without the option: Load wrote the default  *)
(* to the write parser and the file, the read parser still lacks it, and   *)
(* it has the section, so that set loads nothing and its guard fails.      *)
(***************************************************************************)
C15_SetOnDeclaredOptionPasses ==
    [][(op.name = "init" /\ alive /\ op'.name = "set"
           /\ Declared(op'.call.section, op'.call.option) # {}
           /\ ~StartsWithUS(op'.call.option)) =>
          ~SetFailed']_vars

(***************************************************************************)
(* C16: after construction and after every set that returns, every entry   *)
(* of the last file is in the read parser with the same value.  The code   *)
(* refutes it: the defaults that Load writes through get go to the write   *)
(* parser and the file only, and the read parser is not read again.        *)
(***************************************************************************)
C16_ReadViewNotStale ==
    (alive /\ raised = NoError /\ op.name \in {"init", "set"}) =>
        \A k \in DOMAIN Entries(LastFile).opts :
            /\ HasOption(_parser, k[1], k[2])
            /\ _parser.opts[k] = Entries(LastFile).opts[k]

====
